---- MODULE Spec2Model ----
(***************************************************************************)
(* slurmtail: the log-following session of src/main.rs (mon_logfile).      *)
(*                                                                         *)
(* A session awaits the log file, locates the tail window by a backward    *)
(* scan for newlines, and then follows the file, printing every line it    *)
(* reads, until the stall timeout expires.  The file system and the job    *)
(* that writes the log are the environment.  The resume file ._slurmtail   *)
(* (save_turd, read_turd, clean_turd) and main's run, resume and clean     *)
(* come after the session.                                                 *)
(*                                                                         *)
(* Bytes are the strings "a", "b" and "nl" (the byte b'\n').  A file is a  *)
(* sequence of bytes; offsets are 0-based as in the code, so the byte at   *)
(* offset k is file[k + 1].                                                *)
(*                                                                         *)
(* Time: clock counts ticks of 1/TicksPerSecond second.  The code reads    *)
(* the wall clock through Zoned::now().round(Unit::Second); Now models     *)
(* that reading.  Time passes while the session sleeps: sleep(1 s) lasts   *)
(* at least one second and less than two.                                  *)
(***************************************************************************)
EXTENDS Integers, Sequences, FiniteSets, TLC

VARIABLES
    fstate,               \* the log path on disk: "absent", "denied" or "ok"
    file,                 \* the bytes of the log file (<<>> while absent)
    appends,              \* how many times the job has appended so far
    clock,                \* wall-clock time, in ticks
    arg_timeout,          \* main's `timeout` (Option<u32>): {} is None, {n} is Some(n)
    no_file_timeout,      \* main's `no_file_timeout` flag
    pc,                   \* where mon_logfile is: "start", "await", "locate", "follow", "done";
                          \* where main is around it: "main", "submitted", "exit"
    file_appear_timeout,  \* resolved appearance timeout
    timeout,              \* resolved stall timeout, in seconds
    start_time,           \* rounded seconds at the start of the session
    printed_stat,         \* the waiting notice has been printed
    start_position,       \* the offset the tail-window scan computed
    reader_pos,           \* the offset of the next byte `reader` will return
    last_updated,         \* rounded seconds of the last read of >= 1 byte
    bytes_read,           \* the last read_line's result (-1 before the first read)
    time_now,             \* the last rounded clock reading taken by a loop
    out,                  \* the log bytes printed by print!("{}", line)
    notices,              \* the tagged messages printed, in order
    result,               \* how mon_logfile returned: "none" while it runs
    h_start_clock,        \* history: the clock when the session took start_time
    h_data_clock,         \* history: the clock at the last read of >= 1 byte, or
                          \* when the follow loop started if there was none
    turd,                 \* the resume file ._slurmtail: [exists, text]
    disk,                 \* the paths that exist on disk, the job's log apart
    saver,                \* per process: where its save_turd is, and its open file
    last,                 \* history: the last step taken on the resume file
    cmd,                  \* main's subcommand: "run", "resume", "clean" ("none":
                          \* the session is looked at on its own)
    script,               \* run's script: "missing", "no directive" or "ok"
    sbatch,               \* what run_sbatch will return: "fails" or "ok"
    job_id,               \* the job run_sbatch submitted: "none" or "id"
    log_path,             \* the path main hands to mon_logfile (<<>> before)
    stderr,               \* the error main reported ("" if none)
    exit_code             \* the exit status of the process (-1 while it runs)

\* the session and its log file
sessVars == <<fstate, file, appends, clock, arg_timeout, no_file_timeout, pc,
              file_appear_timeout, timeout, start_time, printed_stat,
              start_position, reader_pos, last_updated, bytes_read, time_now,
              out, notices, result, h_start_clock, h_data_clock>>
\* the resume file and the other paths of the file system
storeVars == <<turd, disk, saver, last>>
\* main
mainVars == <<cmd, script, sbatch, job_id, log_path, stderr, exit_code>>

vars == <<sessVars, storeVars, mainVars>>

(***************************************************************************)
(* Bounds of the model.                                                    *)
(***************************************************************************)
\* the largest --timeout value tried
MaxTimeout == 1
\* ticks per second of the model's clock
TicksPerSecond == 2
\* how many times the job appends to the log during one session
MaxAppends == 2
\* the last clock value: long enough for MaxTimeout + 1 sleeps after a start
\* within the first second
MaxClock == (MaxTimeout + 2) * (2 * TicksPerSecond - 1)

(***************************************************************************)
(* Program constants.                                                      *)
(***************************************************************************)
\* unwrap_or(120u32), both timeouts
DefaultTimeout == 120
\* `newline_count < 149`, `newline_count == 149`
NewlineTarget == 149
\* `let mut buffer = [0u8; 8192]`
BufferLen == 8192
\* sleep(Duration::from_secs(1))
SleepSecs == 1

NL == "nl"
Min(a, b) == IF a < b THEN a ELSE b

\* Option<u32>::unwrap_or
UnwrapOr(opt, d) == IF opt = {} THEN d ELSE CHOOSE v \in opt : TRUE

\* Zoned::now().round(Unit::Second): the clock rounded to the nearest second,
\* halves rounding up
Rounded(t) == (2 * t + TicksPerSecond) \div (2 * TicksPerSecond)
Now == Rounded(clock)

\* file_appear_timeout is an i64: [max |-> TRUE] is i64::MAX, which no i64
\* exceeds; otherwise s is the number of seconds
I64Max == [max |-> TRUE, s |-> 0]
I64Of(n) == [max |-> FALSE, s |-> n]
\* ExceedsAppear with >= for >
ExceedsAppearOrEqual(elapsed, limit) == ~limit.max /\ elapsed >= limit.s

\* `start_time.until(time_now).get_seconds() > file_appear_timeout`
ExceedsAppear(elapsed, limit) == ~limit.max /\ elapsed > limit.s
\* ExceedsStall with >= for >
ExceedsStallOrEqual(elapsed, limit) == elapsed >= limit

\* ExceedsStall with the two times swapped: time_now.until(last_updated)
ExceedsStallReversed(elapsed, limit) == (0 - elapsed) > limit

\* `last_updated.until(time_now).get_seconds() > timeout`
ExceedsStall(elapsed, limit) == elapsed > limit

\* how long one sleep(1 s) may last, in ticks
SleepTicks == (SleepSecs * TicksPerSecond)..((SleepSecs + 1) * TicksPerSecond - 1)

(***************************************************************************)
(* The tail-window scan (start_position).                                  *)
(***************************************************************************)
\* FoundPosition without the offset of the newline inside its chunk
FoundPositionChunkStart(position, i) == position

\* FoundPosition without the `+ 1`: the offset of the newline itself
FoundPositionAtNewline(position, i) == position + i

\* `position += i as u64 + 1`: the offset right after the newline found at
\* index i of the chunk that starts at `position`
FoundPosition(position, i) == position + i + 1

\* `for i in (0..chunk_size).rev()`, run over the indexes lo..hi of the chunk
\* read at offset `position`, from hi down to lo.  st is the loop's state:
\* count is newline_count, found is the index at which the loop broke, or -1.
\* The range is split in two so that the evaluation stays shallow; the bytes
\* are still visited from the highest index to the lowest.
RECURSIVE ScanChunk(_, _, _, _, _)
ScanChunk(f, position, lo, hi, st) ==
    IF st.found >= 0 \/ lo > hi THEN st
    ELSE IF lo = hi THEN
        IF f[position + lo + 1] = NL
        THEN IF st.count + 1 = NewlineTarget
             THEN [count |-> st.count + 1, found |-> lo]
             ELSE [count |-> st.count + 1, found |-> -1]
        ELSE st
    ELSE LET mid == (lo + hi + 1) \div 2
         IN  ScanChunk(f, position, lo, mid - 1, ScanChunk(f, position, mid, hi, st))

\* `while position > 0 && newline_count < 149 { ... }`; seeks are the offsets
\* given to file.seek so far, one per chunk read
RECURSIVE ScanBack(_, _, _, _)
ScanBack(f, position, newline_count, seeks) ==
    IF position > 0 /\ newline_count < NewlineTarget
    THEN LET chunk_size == Min(BufferLen, position)
             p == position - chunk_size
             st == ScanChunk(f, p, 0, chunk_size - 1,
                             [count |-> newline_count, found |-> -1])
         IN  ScanBack(f, IF st.found >= 0 THEN FoundPosition(p, st.found) ELSE p,
                      st.count, Append(seeks, p))
    ELSE [position |-> position, newline_count |-> newline_count, seeks |-> seeks]

\* `if position == 0 && newline_count < 149 { 0 } else { position }`
ScanResult(r) ==
    IF r.position = 0 /\ r.newline_count < NewlineTarget THEN 0 ELSE r.position

\* `let start_position = { ... }` for a file holding the bytes f
StartPosition(f) ==
    IF Len(f) = 0 THEN 0 ELSE ScanResult(ScanBack(f, Len(f), 0, <<>>))

\* the offsets the scan of a file holding the bytes f seeks to, in order
ScanSeeks(f) ==
    IF Len(f) = 0 THEN <<>> ELSE ScanBack(f, Len(f), 0, <<>>).seeks

\* SeekStart to the beginning of the file: SeekFrom::Start(0)
SeekStartOfFile(pos) == 0

\* `file.seek(SeekFrom::Start(start_position))`, then BufReader::new(file):
\* the offset the reader starts at
SeekStart(pos) == pos

(***************************************************************************)
(* The follow loop's read.                                                 *)
(***************************************************************************)
\* the offset at which a line that starts at or before offset k, with no
\* newline before k, ends: right after the first newline at or after k, or at
\* the end of the bytes f when there is none
RECURSIVE LineEnd(_, _)
LineEnd(f, k) ==
    IF k >= Len(f) THEN Len(f)
    ELSE IF f[k + 1] = NL THEN k + 1
    ELSE LineEnd(f, k + 1)

\* BufRead::read_line at offset pos of the bytes f: the bytes up to and
\* including the next newline, or up to the end of the file when there is none
ReadLine(f, pos) == SubSeq(f, pos + 1, LineEnd(f, pos))

(***************************************************************************)
(* main's call: mon_logfile(&log_path, timeout, timeout, no_file_timeout)  *)
(***************************************************************************)
\* the argument main passes as file_appear_timeout_s
FileAppearTimeoutArg == arg_timeout
\* the argument main passes as timeout_s
TimeoutArg == arg_timeout

(***************************************************************************)
(* mon_logfile                                                             *)
(***************************************************************************)
\* ResolveFileAppearTimeout with the flag inverted
ResolveFileAppearTimeoutInverted(flag, opt) ==
    IF ~flag THEN I64Max ELSE I64Of(UnwrapOr(opt, DefaultTimeout))

\* ResolveFileAppearTimeout without the no_file_timeout branch
ResolveFileAppearTimeoutIgnoringFlag(flag, opt) ==
    I64Of(UnwrapOr(opt, DefaultTimeout))

\* the resolved appearance timeout
ResolveFileAppearTimeout(flag, opt) ==
    IF flag THEN I64Max ELSE I64Of(UnwrapOr(opt, DefaultTimeout))

\* the resolved stall timeout
ResolveTimeout(opt) == UnwrapOr(opt, DefaultTimeout)

\* argument handling, start_time and printed_stat
MonStart ==
    /\ pc = "start"
    /\ file_appear_timeout' = ResolveFileAppearTimeout(no_file_timeout, FileAppearTimeoutArg)
    /\ timeout' = ResolveTimeout(TimeoutArg)
    /\ start_time' = Now
    /\ h_start_clock' = clock
    /\ printed_stat' = FALSE
    /\ pc' = "await"
    /\ UNCHANGED <<fstate, file, appends, clock, arg_timeout, no_file_timeout,
                   start_position, reader_pos, last_updated, bytes_read,
                   time_now, out, notices, result, h_data_clock>>
    /\ UNCHANGED <<storeVars, mainVars>>

\* AwaitOpened that goes on to the follow loop without the scan
AwaitOpenedSkippingScan ==
    /\ pc = "await"
    /\ fstate = "ok"
    /\ notices' = Append(notices, "INFO found")
    /\ last_updated' = Now
    /\ h_data_clock' = clock
    /\ pc' = "follow"
    /\ UNCHANGED <<fstate, file, appends, clock, arg_timeout, no_file_timeout,
                   file_appear_timeout, timeout, start_time, printed_stat,
                   start_position, reader_pos, bytes_read,
                   time_now, out, result, h_start_clock>>
    /\ UNCHANGED <<storeVars, mainVars>>

\* an iteration of the await loop in which File::open succeeds: `break f`
AwaitOpened ==
    /\ pc = "await"
    /\ fstate = "ok"
    /\ notices' = Append(notices, "INFO found")
    /\ pc' = "locate"
    /\ UNCHANGED <<fstate, file, appends, clock, arg_timeout, no_file_timeout,
                   file_appear_timeout, timeout, start_time, printed_stat,
                   start_position, reader_pos, last_updated, bytes_read,
                   time_now, out, result, h_start_clock, h_data_clock>>
    /\ UNCHANGED <<storeVars, mainVars>>

\* WaitingNotice printed at every failed poll
WaitingNoticeEveryPoll(ns, printed) == Append(ns, "INFO waiting")

\* the waiting notice of the Err(_) arm, printed once
WaitingNotice(ns, printed) == IF printed THEN ns ELSE Append(ns, "INFO waiting")

\* an iteration of the await loop in which File::open fails, for whatever
\* reason: the notice, the sleep of d ticks and the timeout check
AwaitRetry(d) ==
    /\ pc = "await"
    /\ fstate # "ok"
    /\ clock + d <= MaxClock
    /\ printed_stat' = TRUE
    /\ clock' = clock + d
    /\ time_now' = Rounded(clock')
    /\ IF ExceedsAppear(time_now' - start_time, file_appear_timeout)
       THEN /\ notices' = Append(WaitingNotice(notices, printed_stat), "FATAL appear")
            /\ result' = "AppearanceTimeout"
            /\ pc' = "done"
       ELSE /\ notices' = WaitingNotice(notices, printed_stat)
            /\ UNCHANGED <<result, pc>>
    /\ UNCHANGED <<fstate, file, appends, arg_timeout, no_file_timeout,
                   file_appear_timeout, timeout, start_time,
                   start_position, reader_pos, last_updated, bytes_read, out, h_start_clock, h_data_clock>>
    /\ UNCHANGED <<storeVars, mainVars>>

\* the tail-window scan, the seek to its result, and the first last_updated
Locate ==
    /\ pc = "locate"
    /\ start_position' = StartPosition(file)
    /\ reader_pos' = SeekStart(start_position')
    /\ last_updated' = Now
    /\ h_data_clock' = clock
    /\ pc' = "follow"
    /\ UNCHANGED <<fstate, file, appends, clock, arg_timeout, no_file_timeout,
                   file_appear_timeout, timeout, start_time, printed_stat,
                   bytes_read, time_now, out, notices, result, h_start_clock>>
    /\ UNCHANGED <<storeVars, mainVars>>

\* `?` on file.metadata(), file.seek() or file.read_exact()
LocateIoError ==
    /\ pc = "locate"
    /\ result' = "IoError"
    /\ pc' = "done"
    /\ UNCHANGED <<fstate, file, appends, clock, arg_timeout, no_file_timeout,
                   file_appear_timeout, timeout, start_time, printed_stat,
                   start_position, reader_pos, last_updated, bytes_read,
                   time_now, out, notices, h_start_clock, h_data_clock>>
    /\ UNCHANGED <<storeVars, mainVars>>

\* LastUpdated that takes the time the session started
LastUpdatedStartTime(t_now) == start_time

\* LastUpdated that keeps the old value
LastUpdatedKept(t_now) == last_updated

\* `last_updated = time_now.clone()` after a read of >= 1 byte
LastUpdated(t_now) == t_now

\* FollowIteration that checks the stall timeout before it looks at what the
\* read returned
FollowIterationTimeoutFirst(d) ==
    /\ pc = "follow"
    /\ LET line == ReadLine(file, reader_pos)
       IN  /\ bytes_read' = Len(line)
           /\ time_now' = Now
           /\ IF ExceedsStall(time_now' - last_updated, timeout)
              THEN /\ notices' = Append(notices, "WARNING stalled")
                   /\ result' = "StallTimeout"
                   /\ pc' = "done"
                   /\ UNCHANGED <<clock, out, reader_pos, last_updated, h_data_clock>>
              ELSE IF bytes_read' > 0
              THEN /\ out' = out \o line
                   /\ reader_pos' = reader_pos + bytes_read'
                   /\ last_updated' = LastUpdated(time_now')
                   /\ h_data_clock' = clock
                   /\ UNCHANGED <<clock, notices, result, pc>>
              ELSE /\ clock + d <= MaxClock
                   /\ clock' = clock + d
                   /\ UNCHANGED <<out, reader_pos, last_updated, notices, result, pc,
                                  h_data_clock>>
    /\ UNCHANGED <<fstate, file, appends, arg_timeout, no_file_timeout,
                   file_appear_timeout, timeout, start_time, printed_stat,
                   start_position, h_start_clock>>
    /\ UNCHANGED <<storeVars, mainVars>>

\* FollowIteration that returns Ok(()) when a read finds no bytes
FollowIterationToEndOfFile(d) ==
    /\ pc = "follow"
    /\ LET line == ReadLine(file, reader_pos)
       IN  /\ bytes_read' = Len(line)
           /\ time_now' = Now
           /\ IF bytes_read' > 0
              THEN /\ out' = out \o line
                   /\ reader_pos' = reader_pos + bytes_read'
                   /\ last_updated' = LastUpdated(time_now')
                   /\ h_data_clock' = clock
                   /\ UNCHANGED <<notices, result, pc>>
              ELSE /\ result' = "Ok"
                   /\ pc' = "done"
                   /\ UNCHANGED <<out, reader_pos, last_updated, notices, h_data_clock>>
    /\ UNCHANGED <<fstate, file, appends, clock, arg_timeout, no_file_timeout,
                   file_appear_timeout, timeout, start_time, printed_stat,
                   start_position, h_start_clock>>
    /\ UNCHANGED <<storeVars, mainVars>>

\* one iteration of the follow loop; d is how long its sleep lasts when it sleeps
FollowIteration(d) ==
    /\ pc = "follow"
    /\ LET line == ReadLine(file, reader_pos)
       IN  /\ bytes_read' = Len(line)
           /\ time_now' = Now
           /\ IF bytes_read' > 0
              THEN /\ out' = out \o line
                   /\ reader_pos' = reader_pos + bytes_read'
                   /\ last_updated' = LastUpdated(time_now')
                   /\ h_data_clock' = clock
                   /\ UNCHANGED <<clock, notices, result, pc>>
              ELSE IF ExceedsStall(time_now' - last_updated, timeout)
              THEN /\ notices' = Append(notices, "WARNING stalled")
                   /\ result' = "StallTimeout"
                   /\ pc' = "done"
                   /\ UNCHANGED <<clock, out, reader_pos, last_updated, h_data_clock>>
              ELSE /\ clock + d <= MaxClock
                   /\ clock' = clock + d
                   /\ UNCHANGED <<out, reader_pos, last_updated, notices, result, pc,
                                  h_data_clock>>
    /\ UNCHANGED <<fstate, file, appends, arg_timeout, no_file_timeout,
                   file_appear_timeout, timeout, start_time, printed_stat,
                   start_position, h_start_clock>>
    /\ UNCHANGED <<storeVars, mainVars>>

\* `?` on reader.read_line()
FollowIoError ==
    /\ pc = "follow"
    /\ result' = "IoError"
    /\ pc' = "done"
    /\ UNCHANGED <<fstate, file, appends, clock, arg_timeout, no_file_timeout,
                   file_appear_timeout, timeout, start_time, printed_stat,
                   start_position, reader_pos, last_updated, bytes_read,
                   time_now, out, notices, h_start_clock, h_data_clock>>
    /\ UNCHANGED <<storeVars, mainVars>>

(***************************************************************************)
(* The environment: the job that writes the log, and the file system.      *)
(***************************************************************************)
\* n lines of w bytes each, the last one without its newline unless term
Lines(n, w, term) ==
    [k \in 1..(n * (w + 1) - (IF term \/ n = 0 THEN 0 ELSE 1)) |->
        IF k % (w + 1) = 0 THEN NL
        ELSE IF ((k - 1) \div (w + 1)) % 2 = 0 THEN "a" ELSE "b"]

\* what the job writes in one append
Chunks == {<<"b", NL>>, <<"a">>}

\* what the log holds when a session of Spec first sees it
SmallFiles == {Lines(0, 1, TRUE), Lines(1, 1, TRUE), Lines(2, 1, FALSE)}
\* the same, and a log longer than the tail window
SpecFiles == SmallFiles \cup {Lines(NewlineTarget + 2, 1, TRUE)}

\* the job creates the log
FileCreated(c) ==
    /\ pc \in {"start", "await"}
    /\ fstate = "absent"
    /\ fstate' = "ok"
    /\ file' = c
    /\ UNCHANGED <<appends, clock, arg_timeout, no_file_timeout, pc,
                   file_appear_timeout, timeout, start_time, printed_stat,
                   start_position, reader_pos, last_updated, bytes_read,
                   time_now, out, notices, result, h_start_clock, h_data_clock>>
    /\ UNCHANGED <<storeVars, mainVars>>

\* the log becomes readable
FileReadable ==
    /\ pc \in {"start", "await"}
    /\ fstate = "denied"
    /\ fstate' = "ok"
    /\ UNCHANGED <<file, appends, clock, arg_timeout, no_file_timeout, pc,
                   file_appear_timeout, timeout, start_time, printed_stat,
                   start_position, reader_pos, last_updated, bytes_read,
                   time_now, out, notices, result, h_start_clock, h_data_clock>>
    /\ UNCHANGED <<storeVars, mainVars>>

\* the job appends to the log while the session follows it; what it wrote
\* before is part of what the session finds
FileAppended(c) ==
    /\ pc = "follow"
    /\ fstate = "ok"
    /\ appends < MaxAppends
    /\ appends' = appends + 1
    /\ file' = file \o c
    /\ UNCHANGED <<fstate, clock, arg_timeout, no_file_timeout, pc,
                   file_appear_timeout, timeout, start_time, printed_stat,
                   start_position, reader_pos, last_updated, bytes_read,
                   time_now, out, notices, result, h_start_clock, h_data_clock>>
    /\ UNCHANGED <<storeVars, mainVars>>

(***************************************************************************)
(* The resume file ._slurmtail: save_turd, read_turd, clean_turd.          *)
(*                                                                         *)
(* A path, and the text of the resume file, is a sequence of the           *)
(* characters "p", "q", " " and "nl".                                      *)
(***************************************************************************)
\* the characters str::trim removes
Whitespace == {" ", NL}

RECURSIVE TrimStart(_)
\* s without its leading whitespace
TrimStart(s) ==
    IF s # <<>> /\ Head(s) \in Whitespace THEN TrimStart(Tail(s)) ELSE s

RECURSIVE TrimEnd(_)
\* s without its trailing whitespace
TrimEnd(s) ==
    IF s # <<>> /\ s[Len(s)] \in Whitespace
    THEN TrimEnd(SubSeq(s, 1, Len(s) - 1))
    ELSE s

\* Trim that removes nothing
TrimNothing(s) == s

\* content.trim()
Trim(s) == TrimEnd(TrimStart(s))

\* the path the submitted job writes its log to; fstate and file describe it
JobLog == <<"p">>

\* Path::exists
PathExists(p) == p \in disk \/ (p = JobLog /\ fstate # "absent")

\* no resume file in the directory
NoTurd == [exists |-> FALSE, text |-> <<>>]

\* FileCreate that opens the file without truncating it
FileCreateKeepingContent(t) == [exists |-> TRUE, text |-> t.text]

\* File::create: the file is created, or truncated if it is there
FileCreate(t) == [exists |-> TRUE, text |-> <<>>]

\* write_all on a file opened by File::create: the bytes go to offset 0 and
\* beyond, over what the file holds there; what lies further on stays
WriteAll(text, bytes) == bytes \o SubSeq(text, Len(bytes) + 1, Len(text))

\* save_turd from its first line to its last
SaveTurd(t, path) ==
    [exists |-> TRUE, text |-> WriteAll(FileCreate(t).text, path)]

\* ReadTurd that reports a missing log as a missing resume file
ReadTurdStaleAsNotFound(t) ==
    IF ~t.exists \/ ~PathExists(Trim(t.text))
    THEN [ok |-> FALSE, path |-> <<>>, err |-> "No resume file found"]
    ELSE [ok |-> TRUE, path |-> Trim(t.text), err |-> ""]

\* ReadTurd without the check that the log exists
ReadTurdUnchecked(t) ==
    IF ~t.exists
    THEN [ok |-> FALSE, path |-> <<>>, err |-> "No resume file found"]
    ELSE [ok |-> TRUE, path |-> Trim(t.text), err |-> ""]

\* read_turd
ReadTurd(t) ==
    IF ~t.exists
    THEN [ok |-> FALSE, path |-> <<>>, err |-> "No resume file found"]
    ELSE LET log == Trim(t.text)
         IN  IF ~PathExists(log)
             THEN [ok |-> FALSE, path |-> <<>>,
                   err |-> "Log file from resume file no longer exists"]
             ELSE [ok |-> TRUE, path |-> log, err |-> ""]

\* CleanTurd that reports the removal and leaves the file
CleanTurdKept(t) ==
    [turd |-> t,
     report |-> IF t.exists THEN "Removed resume file"
                ELSE "No resume file found to clean"]

\* clean_turd: what is left of the resume file, and what is printed
CleanTurd(t) ==
    [turd |-> NoTurd,
     report |-> IF t.exists THEN "Removed resume file"
                ELSE "No resume file found to clean"]

(***************************************************************************)
(* Processes that work on the resume file of one directory.  save_turd is  *)
(* two steps, File::create and write_all; a process that has created the   *)
(* file holds it open, and writes to it whether or not it is still the     *)
(* directory's ._slurmtail.                                                *)
(***************************************************************************)
\* the processes
Procs == {1, 2}

\* the paths handed to save_turd
SavePaths == {<<"p">>, <<"q", "q">>, <<"p", " ">>}

\* the paths that come and go on disk
DiskPaths == {<<"p">>, <<"q", "q">>, <<"p", " ">>}

\* the resume files a directory may hold to begin with: none, one left by an
\* earlier run, one written by hand
TurdsFound == {NoTurd,
               [exists |-> TRUE, text |-> <<"q", "q">>],
               [exists |-> TRUE, text |-> <<" ", "p", NL>>]}

\* a process that is not inside save_turd
Idle == [pc |-> "idle", path |-> <<>>, linked |-> FALSE]

\* history: nothing has been done to the resume file yet
NoStep == [op |-> "none", by |-> 0, path |-> <<>>, res |-> "", before |-> NoTurd,
           alone |-> FALSE]

\* save_turd, File::create
SaveCreate(i, path) ==
    /\ saver[i].pc = "idle"
    /\ turd' = FileCreate(turd)
    /\ saver' = [saver EXCEPT ![i] = [pc |-> "created", path |-> path, linked |-> TRUE]]
    /\ last' = [op |-> "create", by |-> i, path |-> path, res |-> "",
                before |-> turd, alone |-> FALSE]
    /\ UNCHANGED <<disk, sessVars, mainVars>>

\* save_turd, write_all and return
SaveWrite(i) ==
    /\ saver[i].pc = "created"
    /\ turd' = IF saver[i].linked
               THEN [exists |-> TRUE, text |-> WriteAll(turd.text, saver[i].path)]
               ELSE turd
    /\ saver' = [saver EXCEPT ![i] = Idle]
    /\ last' = LET own == last.op = "create" /\ last.by = i
               IN  [op |-> "save", by |-> i, path |-> saver[i].path, res |-> "",
                    before |-> IF own THEN last.before ELSE turd,
                    alone |-> own]
    /\ UNCHANGED <<disk, sessVars, mainVars>>

\* read_turd
Load(i) ==
    /\ saver[i].pc = "idle"
    /\ LET r == ReadTurd(turd)
       IN  last' = [op |-> "load", by |-> i, path |-> r.path, res |-> r.err,
                    before |-> turd, alone |-> FALSE]
    /\ UNCHANGED <<turd, disk, saver, sessVars, mainVars>>

\* clean_turd; a file removed stays with the processes that hold it open
Clear(i) ==
    /\ saver[i].pc = "idle"
    /\ LET r == CleanTurd(turd)
       IN  /\ turd' = r.turd
           /\ saver' = [j \in Procs |->
                          IF r.turd.exists THEN saver[j]
                          ELSE [saver[j] EXCEPT !.linked = FALSE]]
           /\ last' = [op |-> "clear", by |-> i, path |-> <<>>, res |-> r.report,
                       before |-> turd, alone |-> FALSE]
    /\ UNCHANGED <<disk, sessVars, mainVars>>

\* a path comes into existence
DiskCreate(p) ==
    /\ p \notin disk
    /\ disk' = disk \cup {p}
    /\ UNCHANGED <<turd, saver, last, sessVars, mainVars>>

\* a path is deleted
DiskDelete(p) ==
    /\ p \in disk
    /\ disk' = disk \ {p}
    /\ UNCHANGED <<turd, saver, last, sessVars, mainVars>>

\* the resume file and the processes before any of them has acted
InitStore ==
    /\ saver = [i \in Procs |-> Idle]
    /\ last = NoStep

\* main has not been entered: the specification looks at mon_logfile or at
\* the resume file on its own
NoMain ==
    /\ cmd = "none"
    /\ script = "ok"
    /\ sbatch = "ok"
    /\ job_id = "none"
    /\ log_path = <<>>
    /\ stderr = ""
    /\ exit_code = -1

(***************************************************************************)
(* Spec: a session with its environment.                                   *)
(***************************************************************************)
\* the clock, the flag and mon_logfile's locals and outputs before it runs
SessionLocals ==
    /\ appends = 0
    /\ clock \in 0..(TicksPerSecond - 1)
    /\ no_file_timeout \in BOOLEAN
    /\ file_appear_timeout = I64Of(0)
    /\ timeout = 0
    /\ start_time = 0
    /\ printed_stat = FALSE
    /\ start_position = 0
    /\ reader_pos = 0
    /\ last_updated = 0
    /\ bytes_read = -1
    /\ time_now = 0
    /\ out = <<>>
    /\ notices = <<>>
    /\ result = "none"
    /\ h_start_clock = 0
    /\ h_data_clock = 0

\* mon_logfile is about to be called
InitSession ==
    /\ SessionLocals
    /\ pc = "start"

\* a session looked at on its own: nothing happens to the resume file
NoStore ==
    /\ turd = NoTurd
    /\ disk = {}
    /\ InitStore

Init ==
    /\ fstate \in {"absent", "denied", "ok"}
    /\ file \in (CASE fstate = "absent" -> {<<>>}
                   [] fstate = "denied" -> SmallFiles
                   [] OTHER -> SpecFiles)
    /\ arg_timeout \in {{}} \cup {{n} : n \in 0..MaxTimeout}
    /\ InitSession
    /\ NoStore
    /\ NoMain

Session ==
    \/ MonStart
    \/ AwaitOpened
    \/ \E d \in SleepTicks : AwaitRetry(d)
    \/ Locate
    \/ \E d \in SleepTicks : FollowIteration(d)

Next ==
    \/ Session
    \/ LocateIoError
    \/ FollowIoError
    \/ \E c \in SmallFiles : FileCreated(c)
    \/ FileReadable
    \/ \E c \in Chunks : FileAppended(c)

Spec == Init /\ [][Next]_vars

(***************************************************************************)
(* QuietSpec: a session on a file system that does not change: the log is  *)
(* absent and stays absent, or it is there and static.  The session is one *)
(* thread that always takes its next step, which is the fairness stated.   *)
(***************************************************************************)
InitQuiet ==
    /\ fstate \in {"absent", "ok"}
    /\ file \in (IF fstate = "absent" THEN {<<>>} ELSE SmallFiles)
    /\ arg_timeout \in {{n} : n \in 0..MaxTimeout}
    /\ InitSession
    /\ NoStore
    /\ NoMain

QuietSpec == InitQuiet /\ [][Session]_vars /\ WF_vars(Session)

(***************************************************************************)
(* WindowSpec: a session on a static log, for logs of every length around  *)
(* the tail window's.                                                      *)
(***************************************************************************)
\* line counts around the tail window's size
LineCounts == {0, 1, 2, NewlineTarget - 1, NewlineTarget, NewlineTarget + 1,
               NewlineTarget + 2, NewlineTarget + 3, NewlineTarget + 51}

\* k bytes without a newline
Pad(k) == [i \in 1..k |-> "a"]

\* the line width with which NewlineTarget lines just fill a chunk
BoundaryWidth == (BufferLen \div NewlineTarget) - 1

\* the bytes to add after NewlineTarget lines of that width so that the first
\* of their newlines is the first byte of the last chunk of the file
BoundaryTail == BufferLen - 1 - (NewlineTarget - 1) * (BoundaryWidth + 1)

\* logs of NewlineTarget newlines and of one newline more, whose
\* NewlineTarget-th newline from the end is the last byte of the chunk the
\* scan reads second, the first byte of the chunk it reads first, or the
\* byte after that
BoundaryFiles ==
    {Pad(m) \o Lines(NewlineTarget, BoundaryWidth, TRUE) \o Pad(j) :
        m \in {0, 1}, j \in (BoundaryTail - 1)..(BoundaryTail + 1)}
    \cup {<<"b", NL>> \o Lines(NewlineTarget, BoundaryWidth, TRUE) \o Pad(j) :
        j \in (BoundaryTail - 1)..(BoundaryTail + 1)}

\* logs of empty lines and of one-byte lines, and logs of 64-byte lines that
\* take more than one chunk to scan; with and without a final newline
StaticFiles ==
    {Lines(n, w, t) : n \in LineCounts, w \in {0, 1}, t \in BOOLEAN}
    \cup {Lines(n, 63, t) : n \in {NewlineTarget - 19, NewlineTarget + 51}, t \in BOOLEAN}
    \cup BoundaryFiles

InitWindow ==
    /\ fstate \in {"absent", "ok"}
    /\ file \in (IF fstate = "absent" THEN {<<>>} ELSE StaticFiles)
    /\ arg_timeout = {0}
    /\ InitSession
    /\ ~no_file_timeout
    /\ clock = 0
    /\ NoStore
    /\ NoMain

WindowSpec == InitWindow /\ [][Session]_vars

(***************************************************************************)
(* MarkerSpec: the processes that save, read and remove the resume file of *)
(* one directory, while paths come and go on disk.                         *)
(***************************************************************************)
\* no session runs: the job's log is one of the paths of disk
NoSession ==
    /\ fstate = "absent"
    /\ file = <<>>
    /\ arg_timeout = {}
    /\ InitSession
    /\ clock = 0
    /\ ~no_file_timeout

InitMarker ==
    /\ turd \in TurdsFound
    /\ disk \in SUBSET DiskPaths
    /\ InitStore
    /\ NoSession
    /\ NoMain

\* a step of save_turd by some process
SaveStep ==
    \E i \in Procs :
        \/ \E path \in SavePaths : SaveCreate(i, path)
        \/ SaveWrite(i)

NextMarker ==
    \/ SaveStep
    \/ \E i \in Procs : Load(i)
    \/ \E i \in Procs : Clear(i)
    \/ \E p \in DiskPaths : DiskCreate(p)
    \/ \E p \in DiskPaths : DiskDelete(p)

MarkerSpec == InitMarker /\ [][NextMarker]_vars

(***************************************************************************)
(* RaceSpec: the processes do nothing but save.                            *)
(***************************************************************************)
InitRace ==
    /\ turd \in TurdsFound
    /\ disk = {}
    /\ InitStore
    /\ NoSession
    /\ NoMain

RaceSpec == InitRace /\ [][SaveStep]_vars

(***************************************************************************)
(* main: run, resume and clean.  MainSpec is one invocation of slurmtail,  *)
(* from main's match on the subcommand to the exit of the process; the job *)
(* writes its log to JobLog.                                               *)
(***************************************************************************)
\* the variables of the session, pc apart
sessLocals == <<fstate, file, appends, clock, arg_timeout, no_file_timeout,
                file_appear_timeout, timeout, start_time, printed_stat,
                start_position, reader_pos, last_updated, bytes_read, time_now,
                out, notices, result, h_start_clock, h_data_clock>>

\* the message of the error mon_logfile returned
MonError(res) ==
    CASE res = "AppearanceTimeout" -> "Timeout waiting for log file"
      [] res = "StallTimeout" -> "Timeout while monitoring - no new bytes read"
      [] res = "IoError" -> "io error"
      [] OTHER -> ""

\* ExitStatus of a main that drops the error
ExitStatusDroppingError(err) == 0

\* the exit status of the process when main returns Ok(()) (err is "") or
\* Err(err)
ExitStatus(err) == IF err = "" THEN 0 ELSE 1

\* process::exit(1)
ExitOne == 1

\* MainRunSubmit that saves the resume file before it submits the job
MainRunSubmitSavingFirst ==
    /\ pc = "main"
    /\ cmd = "run"
    /\ IF script = "missing"
       THEN /\ stderr' = "Script file does not exist"
            /\ exit_code' = ExitOne
            /\ pc' = "exit"
            /\ UNCHANGED <<job_id, log_path, turd, last>>
       ELSE IF script = "no directive"
       THEN /\ stderr' = "No SBATCH output directive found in script"
            /\ exit_code' = ExitStatus(stderr')
            /\ pc' = "exit"
            /\ UNCHANGED <<job_id, log_path, turd, last>>
       ELSE /\ turd' = SaveTurd(turd, JobLog)
            /\ last' = [op |-> "save", by |-> 0, path |-> JobLog, res |-> "",
                        before |-> turd, alone |-> TRUE]
            /\ IF sbatch = "fails"
               THEN /\ stderr' = "sbatch failed"
                    /\ exit_code' = ExitStatus(stderr')
                    /\ pc' = "exit"
                    /\ UNCHANGED <<job_id, log_path>>
               ELSE /\ job_id' = "id"
                    /\ log_path' = JobLog
                    /\ pc' = "submitted"
                    /\ UNCHANGED <<stderr, exit_code>>
    /\ UNCHANGED <<cmd, script, sbatch, sessLocals, disk, saver>>

\* run, up to the submission of the job
MainRunSubmit ==
    /\ pc = "main"
    /\ cmd = "run"
    /\ IF script = "missing"
       THEN /\ stderr' = "Script file does not exist"
            /\ exit_code' = ExitOne
            /\ pc' = "exit"
            /\ UNCHANGED <<job_id, log_path>>
       ELSE IF script = "no directive"
       THEN /\ stderr' = "No SBATCH output directive found in script"
            /\ exit_code' = ExitStatus(stderr')
            /\ pc' = "exit"
            /\ UNCHANGED <<job_id, log_path>>
       ELSE IF sbatch = "fails"
       THEN /\ stderr' = "sbatch failed"
            /\ exit_code' = ExitStatus(stderr')
            /\ pc' = "exit"
            /\ UNCHANGED <<job_id, log_path>>
       ELSE /\ job_id' = "id"
            /\ log_path' = JobLog
            /\ pc' = "submitted"
            /\ UNCHANGED <<stderr, exit_code>>
    /\ UNCHANGED <<cmd, script, sbatch, sessLocals, storeVars>>

\* run, save_turd and the call of mon_logfile
MainRunSave ==
    /\ pc = "submitted"
    /\ turd' = SaveTurd(turd, log_path)
    /\ last' = [op |-> "save", by |-> 0, path |-> log_path, res |-> "",
                before |-> turd, alone |-> TRUE]
    /\ pc' = "start"
    /\ UNCHANGED <<disk, saver, sessLocals, mainVars>>

\* resume: read_turd, then the call of mon_logfile or exit(1)
MainResume ==
    /\ pc = "main"
    /\ cmd = "resume"
    /\ LET r == ReadTurd(turd)
       IN  /\ last' = [op |-> "load", by |-> 0, path |-> r.path, res |-> r.err,
                       before |-> turd, alone |-> FALSE]
           /\ IF r.ok
              THEN /\ log_path' = r.path
                   /\ pc' = "start"
                   /\ UNCHANGED <<stderr, exit_code>>
              ELSE /\ stderr' = r.err
                   /\ exit_code' = ExitOne
                   /\ pc' = "exit"
                   /\ UNCHANGED log_path
    /\ UNCHANGED <<cmd, script, sbatch, job_id, turd, disk, saver, sessLocals>>

\* clean: clean_turd and Ok(())
MainClean ==
    /\ pc = "main"
    /\ cmd = "clean"
    /\ LET r == CleanTurd(turd)
       IN  /\ turd' = r.turd
           /\ last' = [op |-> "clear", by |-> 0, path |-> <<>>, res |-> r.report,
                       before |-> turd, alone |-> FALSE]
    /\ exit_code' = ExitStatus("")
    /\ pc' = "exit"
    /\ UNCHANGED <<cmd, script, sbatch, job_id, log_path, stderr, disk, saver, sessLocals>>

\* MainReturn that removes the resume file when the session has ended
MainReturnCleaning ==
    /\ pc = "done"
    /\ cmd \in {"run", "resume"}
    /\ turd' = CleanTurd(turd).turd
    /\ stderr' = MonError(result)
    /\ exit_code' = ExitStatus(stderr')
    /\ pc' = "exit"
    /\ UNCHANGED <<cmd, script, sbatch, job_id, log_path, sessLocals, disk, saver, last>>

\* `mon_logfile(..)?` of run and resume: main returns what mon_logfile
\* returned
MainReturn ==
    /\ pc = "done"
    /\ cmd \in {"run", "resume"}
    /\ stderr' = MonError(result)
    /\ exit_code' = ExitStatus(stderr')
    /\ pc' = "exit"
    /\ UNCHANGED <<cmd, script, sbatch, job_id, log_path, sessLocals, storeVars>>

InitMain ==
    /\ cmd \in {"run", "resume", "clean"}
    /\ script \in (IF cmd = "run" THEN {"missing", "no directive", "ok"} ELSE {"ok"})
    /\ sbatch \in (IF cmd = "run" /\ script = "ok" THEN {"fails", "ok"} ELSE {"ok"})
    /\ job_id = "none"
    /\ log_path = <<>>
    /\ stderr = ""
    /\ exit_code = -1
    /\ turd \in TurdsFound
    /\ disk = {}
    /\ InitStore
    /\ fstate \in {"absent", "ok"}
    /\ file \in (IF fstate = "absent" THEN {<<>>} ELSE SmallFiles)
    /\ arg_timeout \in {{}} \cup {{n} : n \in 0..MaxTimeout}
    /\ SessionLocals
    /\ pc = "main"

NextMain ==
    \/ MainRunSubmit
    \/ MainRunSave
    \/ MainResume
    \/ MainClean
    \/ Session
    \/ LocateIoError
    \/ FollowIoError
    \/ MainReturn
    \/ \E c \in SmallFiles : FileCreated(c)

MainSpec == InitMain /\ [][NextMain]_vars

(***************************************************************************)
(* The claims.  What they measure.                                         *)
(***************************************************************************)
\* the bytes of f from offset p to its end
BytesFrom(f, p) == SubSeq(f, p + 1, Len(f))

EndsInNewline(f) == Len(f) > 0 /\ f[Len(f)] = NL

\* the number of lines of the bytes f: the newline-terminated ones and a
\* partial last one
NumLines(f) ==
    Cardinality({k \in 1..Len(f) : f[k] = NL})
        + (IF Len(f) > 0 /\ ~EndsInNewline(f) THEN 1 ELSE 0)

\* offset p of f is where a line starts
IsLineStart(f, p) == p = 0 \/ (p <= Len(f) /\ f[p] = NL)

\* the tail window: what a read from start_position to the end of the file yields
Window == BytesFrom(file, start_position)

\* the tail-window scan has run and nothing was read yet
Located == pc = "follow" /\ bytes_read = -1

\* C1: for a file of at least 150 lines, the read from the offset the scan
\* computed to the end of the file yields exactly the last 150 lines: 150
\* lines when the file ends in a newline, and 149 to 151 when its last line
\* is partial.
C1_WindowIsLast150Lines ==
    (Located /\ NumLines(file) >= NewlineTarget + 1) =>
        /\ IsLineStart(file, start_position)
        /\ IF EndsInNewline(file)
           THEN NumLines(Window) = NewlineTarget + 1
           ELSE NumLines(Window) \in NewlineTarget..(NewlineTarget + 2)

\* C2: for a file of fewer than 150 lines the scan returns offset 0.
C2_ShortFileFromStart ==
    (Located /\ NumLines(file) < NewlineTarget + 1) => start_position = 0

\* C3: for every file, the read from the offset the scan computed to the end
\* of the file yields at most 150 lines.
C3_WindowAtMost150Lines ==
    Located => (start_position <= Len(file) /\ NumLines(Window) <= NewlineTarget + 1)

\* C3's case: a file of more than 150 lines, longer than one chunk of the
\* scan, whose window starts past the beginning
C3_Witness ==
    /\ Located
    /\ NumLines(file) > NewlineTarget + 1
    /\ Len(file) > BufferLen
    /\ start_position > 0

\* the seconds the session's clock shows; elapsed times are differences of it
StallElapsed == time_now - Rounded(h_data_clock)
AppearElapsed == time_now - Rounded(h_start_clock)

\* C4: the follow loop returns StallTimeout only from an iteration whose read
\* returned 0 bytes while more than `timeout` seconds had elapsed since the
\* last read of at least one byte (or since the loop started); and no
\* iteration of that kind goes on to sleep.
C4_StallTimeoutExactly ==
    /\ result = "StallTimeout" => (bytes_read = 0 /\ StallElapsed > timeout)
    /\ (pc = "follow" /\ bytes_read = 0) => StallElapsed <= timeout

\* C4's case: the loop timed out after it had read data
C4_Witness ==
    /\ result = "StallTimeout"
    /\ Len(out) > 0
    /\ StallElapsed = timeout + 1

\* C5: a read that returns a line prints it and sets last_updated to the time
\* of that read, and the loop goes on; a stall timeout is measured from the
\* last such read, so it comes more than `timeout` seconds of real time
\* after it.
C5_ReadResetsLivenessClock ==
    /\ (pc = "follow" /\ bytes_read > 0) =>
          /\ last_updated = time_now
          /\ last_updated = Rounded(h_data_clock)
          /\ result = "none"
          /\ bytes_read <= Len(out)
          /\ SubSeq(out, Len(out) - bytes_read + 1, Len(out))
                = SubSeq(file, reader_pos - bytes_read + 1, reader_pos)
    /\ result = "StallTimeout" =>
          /\ time_now - last_updated > timeout
          /\ clock - h_data_clock > timeout * TicksPerSecond

\* C5's case: the log was there from the first poll, a line was appended and
\* read within the stall window, and the loop is still running at a poll
\* that is later than the end of the window the loop started with
C5_Witness ==
    /\ pc = "follow"
    /\ notices = <<"INFO found">>
    /\ appends > 0
    /\ bytes_read = 0
    /\ reader_pos = Len(file)
    /\ last_updated > start_time
    /\ last_updated - start_time <= timeout
    /\ time_now - start_time > timeout

\* the longest sleep(1 s), in ticks
LongestSleep == (SleepSecs + 1) * TicksPerSecond - 1

\* C6: on a static file the follow loop ends with StallTimeout, at the first
\* poll that finds more than `timeout` seconds elapsed since the last read
\* of at least one byte: no earlier poll found that, and the poll is no later
\* than the (timeout + 1)-th after that read.
C6_StaticFileStalls ==
    /\ (pc = "follow") ~> (result = "StallTimeout")
    /\ [](result = "StallTimeout" =>
            /\ bytes_read = 0
            /\ reader_pos = Len(file)
            /\ StallElapsed > timeout
            /\ clock - h_data_clock <= (timeout + 1) * LongestSleep)
    /\ []((pc = "follow" /\ bytes_read = 0) => StallElapsed <= timeout)

\* C6's case: a static log was printed and the loop timed out, with a stall
\* timeout of 1
C6_Witness ==
    /\ result = "StallTimeout"
    /\ timeout = 1
    /\ Len(out) > 0
    /\ out = file

\* how mon_logfile can fail
Failures == {"AppearanceTimeout", "StallTimeout", "IoError"}

\* C7: a session never returns Ok: when it is over it has failed with an
\* appearance timeout, a stall timeout or an I/O error, and a follow loop
\* that has reached the end of the file is still running.
C7_NeverReturnsNormally ==
    /\ pc = "done" => result \in Failures
    /\ pc # "done" => result = "none"
    /\ (pc = "done" /\ bytes_read = 0) => result \in {"StallTimeout", "IoError"}

\* C7's case: the loop has read the whole file, found no more bytes, and runs on
C7_Witness ==
    /\ pc = "follow"
    /\ bytes_read = 0
    /\ reader_pos = Len(file)
    /\ Len(out) > 0
    /\ result = "none"

\* C8: the log content printed is the file's bytes from start_position to the
\* reader's position, in order: nothing skipped, repeated or changed.
C8_OutputIsFileRange ==
    /\ start_position <= reader_pos
    /\ reader_pos <= Len(file)
    /\ out = SubSeq(file, start_position + 1, reader_pos)

\* C8's case: the window of a long log was shown, "b\n" was appended, and it
\* is the line printed last
C8_Witness ==
    /\ pc = "follow"
    /\ start_position > 0
    /\ appends = 1
    /\ bytes_read = 2
    /\ reader_pos = Len(file)
    /\ SubSeq(out, Len(out) - 1, Len(out)) = <<"b", NL>>
    /\ Len(out) = NumLines(out) * 2

\* the appearance timeout of a bounded session, in seconds
AppearLimit == UnwrapOr(arg_timeout, DefaultTimeout)

\* C9: the await loop fails with AppearanceTimeout only in bounded mode and
\* only when more than the appearance timeout has elapsed since the session
\* started; after a failed poll it goes on only while no more than that has
\* elapsed; a poll that can open the file returns it; and failed polls are
\* at least a second apart.
C9_AwaitEndsOneOfTwoWays ==
    /\ [](result = "AppearanceTimeout" =>
            /\ ~no_file_timeout
            /\ AppearElapsed > AppearLimit
            /\ clock - h_start_clock > AppearLimit * TicksPerSecond)
    /\ []((pc = "await" /\ printed_stat /\ ~no_file_timeout) =>
            AppearElapsed <= AppearLimit)
    /\ [][(pc = "await" /\ fstate = "ok") => (pc' = "locate" /\ result' = "none")]_vars
    /\ [][(pc = "await" /\ fstate # "ok" /\ fstate' = fstate) =>
            (clock' - clock >= SleepSecs * TicksPerSecond)]_vars

\* C9's case: a bounded session waited, and a poll taken when exactly the
\* appearance timeout had elapsed opened the file
C9_Witness ==
    /\ pc = "locate"
    /\ printed_stat
    /\ ~no_file_timeout
    /\ AppearElapsed = AppearLimit
    /\ AppearLimit > 0

\* C10: a bounded session with an appearance timeout of 0 whose file never
\* exists ends with AppearanceTimeout, after an open attempt that failed.
C10_ZeroTimeoutTerminates ==
    (pc = "start" /\ arg_timeout = {0} /\ ~no_file_timeout /\ fstate = "absent")
        ~> (result = "AppearanceTimeout" /\ printed_stat)

\* C10's case: the session ended after one failed open attempt
C10_Witness ==
    /\ result = "AppearanceTimeout"
    /\ arg_timeout = {0}
    /\ fstate = "absent"
    /\ notices = <<"INFO waiting", "FATAL appear">>

\* C11: a session started with no_file_timeout never fails with
\* AppearanceTimeout, whatever timeout value it was given and however long
\* the file stays absent: its appearance timeout is i64::MAX, which no
\* elapsed time exceeds.
C11_UnboundedNeverTimesOut ==
    no_file_timeout =>
        /\ result # "AppearanceTimeout"
        /\ (pc # "start" => file_appear_timeout = I64Max)

\* C11's case: an unbounded session given --timeout 0 is still awaiting an
\* absent file two seconds or more after it started
C11_Witness ==
    /\ no_file_timeout
    /\ arg_timeout = {0}
    /\ fstate = "absent"
    /\ pc = "await"
    /\ printed_stat
    /\ AppearElapsed >= 2
    /\ result = "none"

\* C12: a poll of the await loop whose open fails for a reason other than
\* absence (the file is there but may not be read) ends the session at once
\* with IoError.
C12_OtherOpenErrorsEndAwait ==
    [][(pc = "await" /\ fstate = "denied" /\ fstate' = "denied") =>
            (pc' = "done" /\ result' = "IoError")]_vars

\* t is s without its leading and trailing whitespace
IsTrimOf(t, s) ==
    \E a, b \in 0..Len(s) :
        /\ a + b <= Len(s)
        /\ t = SubSeq(s, a + 1, Len(s) - b)
        /\ \A k \in 1..a : s[k] \in Whitespace
        /\ \A k \in (Len(s) - b + 1)..Len(s) : s[k] \in Whitespace
        /\ t # <<>> => (t[1] \notin Whitespace /\ t[Len(t)] \notin Whitespace)

\* s without its leading and trailing whitespace
Trimmed(s) ==
    CHOOSE t \in {SubSeq(s, a + 1, Len(s) - b) : a, b \in 0..Len(s)} : IsTrimOf(t, s)

\* the errors of read_turd
MarkerNotFound == "No resume file found"
MarkerStale == "Log file from resume file no longer exists"

\* C13: a load fails with MarkerNotFound when the directory has no resume
\* file, fails with MarkerStale when it has one and the path it names, after
\* trimming, does not exist, and returns that path otherwise.
C13_LoadOutcomes ==
    [][\A i \in Procs : Load(i) =>
          /\ ~turd.exists => last'.res = MarkerNotFound
          /\ (turd.exists /\ ~PathExists(Trimmed(turd.text))) =>
                last'.res = MarkerStale
          /\ (turd.exists /\ PathExists(Trimmed(turd.text))) =>
                (last'.res = "" /\ last'.path = Trimmed(turd.text))]_vars

\* C13's case: a load found the resume file that a save had written, naming
\* a path that is not on disk, and failed with MarkerStale
C13_Witness ==
    /\ last.op = "load"
    /\ last.res = MarkerStale
    /\ last.before = [exists |-> TRUE, text |-> <<"p">>]
    /\ <<"p">> \notin disk

\* a load by process i that follows a save which nothing interrupted
LoadAfterSave(i) == Load(i) /\ last.op = "save" /\ last.alone

\* C14 as amended: a save of P followed by a load returns P without its
\* surrounding whitespace, provided that trimmed path exists; and a resume
\* file whose text is an existing path with whitespace around it loads as
\* that path.
C14_RoundTripOfTrimmedPath ==
    /\ [][\A i \in Procs :
            (LoadAfterSave(i) /\ PathExists(Trimmed(last.path))) =>
                (last'.res = "" /\ last'.path = Trimmed(last.path))]_vars
    /\ [][\A i \in Procs :
            (Load(i) /\ turd.exists /\ turd.text # Trimmed(turd.text)
                /\ PathExists(Trimmed(turd.text))) =>
                (last'.res = "" /\ last'.path = Trimmed(turd.text))]_vars

\* C14's case: "p " was saved and the load returned "p"
C14_Witness ==
    /\ last.op = "load"
    /\ last.res = ""
    /\ last.before.text = <<"p", " ">>
    /\ last.path = <<"p">>

\* C14 as stated: a save of an existing path P followed by a load returns P
\* without its surrounding whitespace
C14_RoundTripOfExistingPath ==
    [][\A i \in Procs :
          (LoadAfterSave(i) /\ PathExists(last.path)) =>
              (last'.res = "" /\ last'.path = Trimmed(last.path))]_vars

\* the reports of clean_turd
Removed == "Removed resume file"
NothingToClean == "No resume file found to clean"

\* C15: a clear of a directory without resume file changes nothing and
\* reports that there was none; a clear of a directory with one removes it;
\* after a clear there is no resume file, and a load that follows fails with
\* MarkerNotFound.
C15_ClearRemovesMarker ==
    /\ [](last.op = "clear" =>
            /\ ~turd.exists
            /\ last.before.exists => last.res = Removed
            /\ ~last.before.exists => (last.res = NothingToClean /\ turd = last.before))
    /\ [][\A i \in Procs : (Load(i) /\ last.op = "clear") =>
            last'.res = MarkerNotFound]_vars

\* C15's case: a resume file that a save wrote has been cleared
C15_Witness ==
    /\ last.op = "clear"
    /\ last.res = Removed
    /\ last.before.text \in SavePaths
    /\ ~turd.exists

\* C16 as amended: after a save of P2 the resume file holds exactly P2,
\* whatever it held before, a longer P1 included; a load that follows
\* returns P2 without its surrounding whitespace when that path exists.
C16_SaveOverwrites ==
    /\ []((last.op = "save" /\ last.alone) =>
            turd = [exists |-> TRUE, text |-> last.path])
    /\ [][\A i \in Procs :
            (LoadAfterSave(i) /\ PathExists(Trimmed(last.path))) =>
                (last'.res = "" /\ last'.path = Trimmed(last.path)
                 /\ last'.before.text = last.path)]_vars

\* C16's case: "p" was saved over the longer "qq"
C16_Witness ==
    /\ last.op = "save"
    /\ last.alone
    /\ last.before = [exists |-> TRUE, text |-> <<"q", "q">>]
    /\ last.path = <<"p">>
    /\ turd.text = <<"p">>

\* C16 as stated: after a save of P2 the resume file holds exactly P2, and a
\* load that follows returns P2 when P2 exists
C16_SaveOverwritesLoadsSame ==
    /\ []((last.op = "save" /\ last.alone) =>
            turd = [exists |-> TRUE, text |-> last.path])
    /\ [][\A i \in Procs :
            (LoadAfterSave(i) /\ PathExists(last.path)) =>
                (last'.res = "" /\ last'.path = last.path)]_vars

\* C17 as amended: a load returns the path a resume file names only when
\* that path exists at the load.
C17_LoadedPathExists ==
    [][\A i \in Procs : (Load(i) /\ last'.res = "") =>
          /\ turd.exists
          /\ last'.path = Trimmed(turd.text)
          /\ PathExists(last'.path)]_vars

\* C17's case: a load returned a path
C17_Witness ==
    /\ last.op = "load"
    /\ last.res = ""
    /\ last.path \in disk

\* C17 as stated: whenever there is a resume file, the path it names exists
C17_MarkerNamesExistingPath ==
    turd.exists => PathExists(Trimmed(turd.text))

\* C18: when the processes have finished their saves, the resume file holds
\* exactly one of the saved paths.
C18_ConcurrentSavesLeaveOnePath ==
    ((\A i \in Procs : saver[i].pc = "idle") /\ last.op = "save") =>
        (turd.exists /\ turd.text \in SavePaths)

\* C19: the process ends with a non-zero exit status when run is given a
\* script that does not exist, when the session ends with the appearance
\* timeout or with the stall timeout, and when resume finds no resume file
\* or one that names a path that does not exist; status 0 is success.
C19_FailuresExitNonZero ==
    pc = "exit" =>
        /\ exit_code \in {0, 1}
        /\ (cmd = "run" /\ script = "missing") => exit_code # 0
        /\ result = "AppearanceTimeout" => exit_code # 0
        /\ result = "StallTimeout" => exit_code # 0
        /\ (cmd = "resume" /\ ~turd.exists) => exit_code # 0
        /\ (cmd = "resume" /\ turd.exists /\ result = "none") =>
              (exit_code # 0 /\ ~PathExists(Trimmed(turd.text)))
        /\ exit_code = 0 => stderr = ""

\* C19's case: run submitted the job, saved the resume file, followed the
\* log until the stall timeout, and the process exited with status 1
C19_Witness ==
    /\ pc = "exit"
    /\ cmd = "run"
    /\ result = "StallTimeout"
    /\ turd.text = JobLog
    /\ exit_code = 1

\* C20: the stall timeout given to run or resume does not determine the
\* session's appearance timeout: a bounded session, to which no appearance
\* timeout can be given, has the default one whatever --timeout says.
C20_StallTimeoutLeavesAppearanceTimeout ==
    (pc \in {"await", "locate", "follow", "done"} /\ ~no_file_timeout) =>
        file_appear_timeout = I64Of(DefaultTimeout)

\* the indexes of the newline bytes of f
NewlinesOf(f) == {k \in 1..Len(f) : f[k] = NL}

\* the offset right after the NewlineTarget-th newline from the end of f, or
\* 0 when f has fewer newlines
AfterTargetNewline(f) ==
    LET nls == NewlinesOf(f)
    IN  IF Cardinality(nls) < NewlineTarget THEN 0
        ELSE CHOOSE k \in nls : Cardinality({j \in nls : j >= k}) = NewlineTarget

\* the end of the n-th chunk the scan read: where the chunk before it began
ChunkEnd(f, n) == IF n = 1 THEN Len(f) ELSE ScanSeeks(f)[n - 1]

\* C21: the scan returns the offset right after the 149th newline from the
\* end of the file, or 0 when the file has fewer newlines; that is 0 or the
\* offset after a newline; every chunk it reads is at most BufferLen bytes
\* and reaches beyond that newline; and an empty file gives offset 0 and no
\* output.
C21_ScanFindsTargetNewline ==
    /\ Located =>
        /\ start_position = AfterTargetNewline(file)
        /\ IsLineStart(file, start_position)
        /\ \A n \in 1..Len(ScanSeeks(file)) :
              /\ ChunkEnd(file, n) >= start_position
              /\ ChunkEnd(file, n) > ScanSeeks(file)[n]
              /\ ChunkEnd(file, n) - ScanSeeks(file)[n] <= BufferLen
        /\ start_position = 0 =>
              (Len(file) = 0 \/ ScanSeeks(file)[Len(ScanSeeks(file))] = 0)
    /\ (fstate = "ok" /\ file = <<>>) => (start_position = 0 /\ out = <<>>)

\* C21's case: a file longer than a chunk whose 149th newline from the end
\* is the first byte of the last chunk; the scan read that chunk only
C21_Witness ==
    /\ Located
    /\ Len(file) > BufferLen + 1
    /\ start_position = Len(file) - BufferLen + 1
    /\ ScanSeeks(file) = <<Len(file) - BufferLen>>

\* the stage changes of a session: await, locate, follow in this order, each
\* left at most once, and the end from any of them
StageChanges ==
    {<<"start", "await">>, <<"await", "locate">>, <<"locate", "follow">>,
     <<"await", "done">>, <<"locate", "done">>, <<"follow", "done">>}

\* C22: the stages of a session run in the order await, locate, follow and
\* none is entered again; start_position is assigned in the one step from
\* locate to follow and no log content is printed before; a session that
\* ends with AppearanceTimeout has printed no log content.
C22_LinearPipeline ==
    /\ [][pc' # pc => <<pc, pc'>> \in StageChanges]_vars
    /\ [][start_position' # start_position => (pc = "locate" /\ pc' = "follow")]_vars
    /\ [][out' # out => (pc = "follow" /\ pc' = "follow")]_vars
    /\ [](pc \in {"start", "await", "locate"} => (out = <<>> /\ start_position = 0))
    /\ [](result = "AppearanceTimeout" =>
            (out = <<>> /\ start_position = 0 /\ bytes_read = -1))

\* C22's case: the session found a long log at its first poll, located the
\* window past the start of the log, printed it and ended in the follow loop
C22_Witness ==
    /\ pc = "done"
    /\ result = "StallTimeout"
    /\ start_position > 0
    /\ out = Window
    /\ "INFO found" = notices[1]

\* how many waiting notices were printed
WaitingNotices == Cardinality({k \in 1..Len(notices) : notices[k] = "INFO waiting"})

\* C23: the waiting notice is printed at most once; it is the first thing
\* printed when the first open attempt fails, it is there after every failed
\* poll, and it is never printed when the first open attempt succeeds or
\* before any attempt.
C23_WaitingNoticeOnce ==
    /\ [](WaitingNotices <= 1)
    /\ []((notices # <<>> /\ notices[1] = "INFO found") => WaitingNotices = 0)
    /\ [](clock = h_start_clock => WaitingNotices = 0)
    /\ [][(pc = "await" /\ clock' > clock) =>
            (WaitingNotices' = 1 /\ notices'[1] = "INFO waiting")]_vars

\* C23's case: three polls have failed and there is one notice
C23_Witness ==
    /\ pc = "await"
    /\ clock - h_start_clock >= 3 * SleepSecs * TicksPerSecond
    /\ notices = <<"INFO waiting">>

\* C24: in the follow loop last_updated never decreases, and it changes only
\* in an iteration whose read returned at least one byte: an iteration that
\* read nothing, and everything else that happens, leaves it as it was.
C24_LivenessClockMonotone ==
    [][pc = "follow" =>
          /\ last_updated' >= last_updated
          /\ last_updated' # last_updated =>
                (bytes_read' > 0 /\ reader_pos' = reader_pos + bytes_read'
                 /\ last_updated' = time_now')
          /\ (reader_pos' = reader_pos) => last_updated' = last_updated]_vars

\* C24's case: the log was there from the start, a read one or more sleeps
\* later advanced last_updated, and the read after it, of no bytes, left it
C24_Witness ==
    /\ pc = "follow"
    /\ ~printed_stat
    /\ last_updated > start_time
    /\ bytes_read = 0
    /\ time_now > last_updated

\* C25: an iteration of the follow loop that finds bytes to read prints them
\* and goes on, without a timeout and without a sleep, however long ago the
\* last bytes were read; the loop sleeps only after a read of no bytes.
C25_DataWinsOverStallTimeout ==
    /\ [][(pc = "follow" /\ reader_pos < Len(file) /\ file' = file
              /\ result' # "IoError") =>
            /\ bytes_read' > 0
            /\ out' = out \o SubSeq(file, reader_pos + 1, reader_pos + bytes_read')
            /\ result' = "none"
            /\ pc' = "follow"
            /\ clock' = clock]_vars
    /\ [][(pc = "follow" /\ clock' > clock) =>
            (bytes_read' = 0 /\ reader_pos = Len(file))]_vars

\* C25's case: with a stall timeout of 0, the session found an empty log at
\* its start, slept, and then read the line the job had appended, a second
\* or more after the loop began
C25_Witness ==
    /\ pc = "follow"
    /\ timeout = 0
    /\ ~printed_stat
    /\ appends = 1
    /\ out = <<"b", NL>>
    /\ file = out
    /\ bytes_read = 2
    /\ last_updated > start_time
    /\ result = "none"

\* where pc is while mon_logfile runs or has just returned
SessionStages == {"start", "await", "locate", "follow", "done"}

\* C26: no step of a session, and no end of one, changes the resume file:
\* from the call of mon_logfile to the exit of the process it is what run
\* saved or what resume read.
C26_SessionLeavesMarker ==
    /\ [][(pc \in SessionStages) => (turd' = turd)]_vars
    /\ []((cmd = "resume" /\ pc # "main") => turd = last.before)
    /\ []((cmd = "run" /\ (pc \in SessionStages \/ (pc = "exit" /\ job_id = "id"))) =>
            turd = [exists |-> TRUE, text |-> log_path])

\* C26's case: resume read a resume file written by hand, the session ended
\* with the stall timeout, and the file is byte for byte what it was
C26_Witness ==
    /\ pc = "exit"
    /\ cmd = "resume"
    /\ result = "StallTimeout"
    /\ out # <<>>
    /\ turd = [exists |-> TRUE, text |-> <<" ", "p", NL>>]

\* C27: run writes the resume file in one step, after the job was submitted
\* and before mon_logfile is called; a run whose script is missing or has no
\* output directive, or whose submission fails, ends with an error without
\* a job, without a session and without a step on the resume file; resume
\* and clean submit no job.
C27_MarkerAfterSubmitBeforeFollow ==
    /\ [][(cmd = "run" /\ turd' # turd) =>
            (pc = "submitted" /\ job_id = "id" /\ pc' = "start")]_vars
    /\ []((cmd = "run" /\ pc \in SessionStages) =>
            (job_id = "id" /\ last.op = "save"
             /\ turd = [exists |-> TRUE, text |-> log_path]))
    /\ []((cmd = "run" /\ (script # "ok" \/ sbatch = "fails")) =>
            /\ pc \in {"main", "exit"}
            /\ job_id = "none"
            /\ last = NoStep
            /\ result = "none" /\ notices = <<>> /\ out = <<>>
            /\ pc = "exit" => (exit_code # 0 /\ stderr # ""))
    /\ [](cmd \in {"resume", "clean"} => job_id = "none")

\* C27's case: the submission failed in a directory that had a resume file,
\* and the run ended with an error and that file
C27_Witness ==
    /\ pc = "exit"
    /\ cmd = "run"
    /\ sbatch = "fails"
    /\ exit_code = 1
    /\ turd = [exists |-> TRUE, text |-> <<"q", "q">>]

====
